---- MODULE Spec2Model ----
(***************************************************************************)
(* Two SystemC modules of the repository, each with its own sc_main:       *)
(*   - Cache  : two-level direct-mapped write-through cache, one SC_THREAD *)
(*              (process_cache) sensitive to clk.pos().                    *)
(*   - Memory : byte-addressed paged memory, one SC_THREAD                 *)
(*              (process_memory) sensitive to clk.pos().                   *)
(* A uint32_t data word is a tuple <<b3, b2, b1, b0>> of its four bytes,   *)
(* most significant first, so that <<, >>, & 0xFF and | act on it exactly  *)
(* as on the 32-bit integer.  Addresses are plain integers.                *)
(***************************************************************************)
EXTENDS Integers, Sequences, FiniteSets, TLC

(***************************************************************************)
(* Bounds of the model: how many of the addresses and data words below the *)
(* driver may put on the ports.                                            *)
(***************************************************************************)
NumAddrs == 4

NumValues == 1

NumMemAddrs == 3

(* Addresses the driver asserts on Cache::address.  With line size 64,     *)
(* 16 lines at level 0 and 32 lines at level 1:                            *)
(*   0     block 0,  index 0 / 0,  offset 0                                *)
(*   4096  block 64, index 0 / 0   (conflicts with 0 at both levels)       *)
(*   1024  block 16, index 0 / 16  (conflicts with 0 at level 0 only)      *)
(*   62    block 0,  offset 62: the word runs past the end of the line     *)
(*   2048  block 32, index 0 / 0                                           *)
(*   4     block 0,  offset 4 (same block as 0, another word)              *)
AddrTable == <<0, 4096, 1024, 62, 2048, 4, 2>>

Addrs == { AddrTable[i] : i \in 1..NumAddrs }

(* Addresses of a second test bench: two words of block 0 and two words    *)
(* of block 64, which takes the same line as block 0 at both levels.       *)
WordAddrs == {0, 4, 4096, 4100}

AllAddrs == Addrs \cup WordAddrs

(* 0x12345678, 0x87654321, 0x00000000, 0xDEADBEEF *)
ValueTable == << <<18, 52, 86, 120>>, <<135, 101, 67, 33>>, <<0, 0, 0, 0>>,
                 <<222, 173, 190, 239>> >>

Values == { ValueTable[i] : i \in 1..NumValues }

(* Addresses the driver asserts on Memory::address. *)
MemAddrTable == <<0, 4096, 2, 4, 4098>>

MemAddrs == { MemAddrTable[i] : i \in 1..NumMemAddrs }

(***************************************************************************)
(* uint32_t arithmetic on byte tuples.                                     *)
(***************************************************************************)
Zero32 == <<0, 0, 0, 0>>

(* (data << 8) | b  *)
ShlOr(data, b) == <<data[2], data[3], data[4], b>>

(* data & 0xFF *)
LowByte(data) == data[4]

(* data >> 8 *)
Shr8(data) == <<0, data[1], data[2], data[3]>>

(***************************************************************************)
(* Cache: configuration set by the constructor.                            *)
(***************************************************************************)
levels == 2

Levels == 0..(levels - 1)

(* Faulty variant: the sizes of the two levels exchanged, level 1 the      *)
(* smaller one.                                                            *)
cache_sizes_level_1_smaller == [l \in Levels |-> IF l = 0 THEN 2048 ELSE 1024]

cache_sizes == [l \in Levels |-> IF l = 0 THEN 1024 ELSE 2048]

line_sizes == [l \in Levels |-> 64]

latencies == [l \in Levels |-> IF l = 0 THEN 1 ELSE 3]

(* sc_clock clk_signal("clk_signal", 10, SC_NS) *)
ClockPeriod == 10

num_lines(level) == cache_sizes[level] \div line_sizes[level]

(* Address decomposition shared by search_cache and update_cache. *)
Tag(level, addr) == addr \div line_sizes[level]

Index(level, addr) == (addr \div line_sizes[level]) % num_lines(level)

Offset(level, addr) == addr % line_sizes[level]

(* The bytes offset+i of a 4-byte access that lie past the end of          *)
(* line.data (std::vector::operator[] does no bounds check).               *)
PastEnd(level, addr) == { i \in 0..3 : Offset(level, addr) + i >= line_sizes[level] }

Aligned(addr) == \A l \in Levels : PastEnd(l, addr) = {}

(* The model keeps, of each level, the lines the driven addresses select   *)
(* (and the line after one whose word runs past its end) and, of each      *)
(* line buffer, the bytes those addresses reach, up to three bytes behind  *)
(* the buffer included.  No request touches any other line or byte: they   *)
(* stay as the constructor left them.                                      *)
KeptLines(level) ==
    { Index(level, a) : a \in AllAddrs } \cup
    { Index(level, a) + 1 : a \in { x \in AllAddrs : PastEnd(level, x) # {} } }

KeptBytes(level) ==
    { Offset(level, a) + i : a \in AllAddrs, i \in 0..3 } \cup
    UNION { { Offset(level, a) + i - line_sizes[level] : i \in PastEnd(level, a) } :
            a \in AllAddrs }

(***************************************************************************)
(* State.  caches, r_data, ready are Cache's members and output signals;   *)
(* read, write, address, w_data hold the values the input signals had at   *)
(* the most recent rising clock edge.  pc is where process_cache is:       *)
(* "wait_clk" suspended in wait() (line 187), "wait_lat" suspended in      *)
(* wait(latencies[level], SC_NS) (line 202), "aborted" once the process    *)
(* has been terminated.  now is the simulated time in ns since the most    *)
(* recent rising edge, wait_left the time left of the latency wait.  ev    *)
(* names the last step process_cache took.                                 *)
(*                                                                         *)
(* line.data[offset + i] with offset + i >= line_size is undefined         *)
(* behaviour.  build is the outcome the build at hand produces, fixed for  *)
(* a run:                                                                  *)
(*   "padded"    the bytes behind a line buffer belong to its allocation;  *)
(*               stores there are kept and read back;                      *)
(*   "adjacent"  the line buffers of a level lie back to back, so the      *)
(*               bytes behind one are the first bytes of the next line;    *)
(*   "checked"   operator[] checks its index and terminates the process.   *)
(*                                                                         *)
(* follows and last_write record history: follows says whether the request *)
(* being served is a read of the address of the request sampled one edge   *)
(* before it, and what that was; last_write is the most recent write       *)
(* request; installed maps each address a test bench tracks to the word    *)
(* most recently installed for exactly that address by a write or a miss   *)
(* fill (NoWord before the first).  driven is the set of addresses the     *)
(* test bench puts on the address port, fixed for a run.                   *)
(* memory, mem_* are the Memory module's members and signals.              *)
(***************************************************************************)
VARIABLES caches, r_data, ready, read, write, address, w_data,
          pc, now, wait_left, ev, build, follows, last_write,
          driven, installed,
          memory, mem_r_data, mem_ready, mem_read, mem_write, mem_address,
          mem_w_data, mem_ev

cache_vars == <<caches, r_data, ready, read, write, address, w_data,
                pc, now, wait_left, ev, build, follows, last_write,
                driven, installed>>

mem_vars == <<memory, mem_r_data, mem_ready, mem_read, mem_write, mem_address,
              mem_w_data, mem_ev>>

vars == <<cache_vars, mem_vars>>

Builds == {"padded", "adjacent", "checked"}

(* Where line.data[off] of line idx lives: <<line, byte>>. *)
Cell(level, idx, off) ==
    IF off >= line_sizes[level] /\ build = "adjacent"
    THEN <<idx + 1, off - line_sizes[level]>>
    ELSE <<idx, off>>

(* operator[] terminates the process on this access. *)
Faults(level, addr) == build = "checked" /\ PastEnd(level, addr) # {}

(***************************************************************************)
(* Cache::search_cache.  Returns [hit, data]; data is only assigned on a   *)
(* hit.                                                                    *)
(***************************************************************************)
LineHit(c, level, addr) ==
    /\ c[level][Index(level, addr)].valid
    /\ c[level][Index(level, addr)].tag = Tag(level, addr)

LineByte(c, level, addr, i) ==
    LET at == Cell(level, Index(level, addr), Offset(level, addr) + i)
    IN  c[level][at[1]].data[at[2]]

(* for (i = 0; i < 4; i++) data = (data << 8) | line.data[offset + i] *)
RECURSIVE ReadBytes(_, _, _, _, _)
ReadBytes(c, level, addr, data, i) ==
    IF i >= 4 THEN data
    ELSE ReadBytes(c, level, addr, ShlOr(data, LineByte(c, level, addr, i)), i + 1)

search_cache(c, level, addr) ==
    IF LineHit(c, level, addr)
    THEN [hit |-> TRUE, data |-> ReadBytes(c, level, addr, Zero32, 0)]
    ELSE [hit |-> FALSE, data |-> Zero32]

(***************************************************************************)
(* Cache::update_cache.  valid and tag are set first; the loop then stores *)
(* the low byte at offset+3 and works down to offset.  In the "checked"    *)
(* build the first store past the end terminates the process, which is     *)
(* the store at offset+3.                                                  *)
(***************************************************************************)
StoreByte(lines, level, addr, i, b) ==
    LET at == Cell(level, Index(level, addr), Offset(level, addr) + i)
    IN  [lines EXCEPT ![at[1]].data[at[2]] = b]

(* for (i = 3; i >= 0; i--) { line.data[offset + i] = data & 0xFF; data >>= 8; } *)
RECURSIVE StoreBytes(_, _, _, _, _)
StoreBytes(lines, level, addr, data, i) ==
    IF i < 0 THEN lines
    ELSE StoreBytes(StoreByte(lines, level, addr, i, LowByte(data)),
                    level, addr, Shr8(data), i - 1)

(* Faulty variant: the bytes are stored low byte first, at offset. *)
RECURSIVE StoreBytesLowFirst(_, _, _, _, _)
StoreBytesLowFirst(lines, level, addr, data, i) ==
    IF i >= 4 THEN lines
    ELSE StoreBytesLowFirst(StoreByte(lines, level, addr, i, LowByte(data)),
                            level, addr, Shr8(data), i + 1)

update_cache_low_byte_first(c, level, addr, data) ==
    LET idx    == Index(level, addr)
        tagged == [c[level] EXCEPT ![idx].valid = TRUE,
                                   ![idx].tag = Tag(level, addr)]
    IN  IF Faults(level, addr)
        THEN [c EXCEPT ![level] = tagged]
        ELSE [c EXCEPT ![level] = StoreBytesLowFirst(tagged, level, addr, data, 0)]

(* Faulty variant: the tag of a line that is already valid is not replaced. *)
update_cache_keep_tag(c, level, addr, data) ==
    LET idx    == Index(level, addr)
        tagged == IF c[level][idx].valid THEN c[level]
                  ELSE [c[level] EXCEPT ![idx].valid = TRUE,
                                        ![idx].tag = Tag(level, addr)]
    IN  IF Faults(level, addr)
        THEN [c EXCEPT ![level] = tagged]
        ELSE [c EXCEPT ![level] = StoreBytes(tagged, level, addr, data, 3)]

update_cache(c, level, addr, data) ==
    LET idx    == Index(level, addr)
        tagged == [c[level] EXCEPT ![idx].valid = TRUE,
                                   ![idx].tag = Tag(level, addr)]
    IN  IF Faults(level, addr)
        THEN [c EXCEPT ![level] = tagged]
        ELSE [c EXCEPT ![level] = StoreBytes(tagged, level, addr, data, 3)]

(* for (level = 0; level < levels; level++) update_cache(level, addr, data) *)
RECURSIVE UpdateLevels(_, _, _, _)
UpdateLevels(c, level, addr, data) ==
    IF level >= levels THEN c
    ELSE IF Faults(level, addr) THEN update_cache(c, level, addr, data)
    ELSE UpdateLevels(update_cache(c, level, addr, data), level + 1, addr, data)

(* Faulty variant: the loop starts at level 1. *)
update_all_skip_level_0(c, addr, data) == UpdateLevels(c, 1, addr, data)

(* Faulty variant: the loop stops after level 0. *)
update_all_level_0_only(c, addr, data) == update_cache(c, 0, addr, data)

update_all(c, addr, data) == UpdateLevels(c, 0, addr, data)

(* data = 0xDEADBEEF *)
MissData == <<222, 173, 190, 239>>

(* Faulty variant: the cascade does not stop at the first hit and serves   *)
(* the read from the last level that holds the address.                   *)
HitLevels_last_hit(c, addr) ==
    { l \in Levels :
        /\ search_cache(c, l, addr).hit
        /\ \A k \in (l + 1)..(levels - 1) : ~search_cache(c, k, addr).hit }

(* The level the cascade of lines 197-205 stops at: the first that hits. *)
HitLevels(c, addr) ==
    { l \in Levels :
        /\ search_cache(c, l, addr).hit
        /\ \A k \in 0..(l - 1) : ~search_cache(c, k, addr).hit }

(***************************************************************************)
(* Cache::process_cache, one action per path through the loop body.  The   *)
(* thread runs at a rising edge only when suspended in wait().             *)
(***************************************************************************)

(* The driver puts a data word on w_data with a write request and zero      *)
(* otherwise; on a tick without request it leaves address alone.            *)
WData(wr) == IF wr THEN Values ELSE {Zero32}

Sample(rd, wr, addr, wdata) ==
    /\ pc = "wait_clk"
    /\ read' = rd /\ write' = wr /\ address' = addr /\ w_data' = wdata
    /\ now' = 0
    /\ build' = build
    /\ driven' = driven

(* Faulty variant of Completion: the write path lacks ready.write(true). *)
Completion_write_unacknowledged(path) ==
    IF path = "read_hit" THEN [ready |-> FALSE, pc |-> "wait_lat"]
    ELSE IF path = "read_miss" THEN [ready |-> TRUE, pc |-> "wait_clk"]
    ELSE [ready |-> FALSE, pc |-> "wait_clk"]

(* Faulty variant of Completion: ready.write(true) follows the if/else      *)
(* chain and is reached on a tick without request too.                      *)
Completion_idle_asserts_ready(path) ==
    IF path = "read_hit" THEN [ready |-> FALSE, pc |-> "wait_lat"]
    ELSE [ready |-> TRUE, pc |-> "wait_clk"]

(* What each path through the loop body leaves behind: the value of ready  *)
(* (ready.write(false) at line 188, ready.write(true) at lines 216 and     *)
(* 227) and where the thread suspends next.                                *)
Completion(path) ==
    IF path = "read_hit" THEN [ready |-> FALSE, pc |-> "wait_lat"]
    ELSE IF path \in {"read_miss", "write"} THEN [ready |-> TRUE, pc |-> "wait_clk"]
    ELSE [ready |-> FALSE, pc |-> "wait_clk"]

(* History of the requests. *)
Follows(rd, addr) ==
    IF rd /\ addr = address /\ ev = "write" THEN "write"
    ELSE IF rd /\ addr = address /\ ev = "read_miss" THEN "read_miss"
    ELSE "other"

(* The process is terminated inside search_cache or update_cache; the      *)
(* signal writes it requested in this evaluation never take effect.        *)
Abort ==
    /\ pc' = "aborted"
    /\ ev' = "abort"
    /\ wait_left' = 0
    /\ UNCHANGED <<r_data, ready, installed>>

NoWord == <<>>

(* The record of installs after update_cache has run for addr with data. *)
Installed(h, addr, data) ==
    IF addr \in DOMAIN h THEN [h EXCEPT ![addr] = data] ELSE h

(* Faulty variant: a hit at `level` copies the word into the levels below   *)
(* it, as a miss fill would.                                                *)
RECURSIVE PromoteBelow(_, _, _, _)
PromoteBelow(c, level, addr, data) ==
    IF level = 0 THEN c
    ELSE PromoteBelow(update_cache(c, level - 1, addr, data),
                      level - 1, addr, data)

after_hit_promote(c, level, addr) ==
    PromoteBelow(c, level, addr, search_cache(c, level, addr).data)

(* The lines after the hit branch, lines 198-204: it writes r_data, waits   *)
(* and breaks; it calls update_cache for no level.                          *)
after_hit(c, level, addr) == c

(* if (read.read()) ... search_cache hits at `level`: lines 193-205 *)
CacheReadHit ==
    \E wr \in BOOLEAN, addr \in driven : \E wdata \in WData(wr) :
      \E level \in HitLevels(caches, addr) :
        /\ Sample(TRUE, wr, addr, wdata)
        /\ follows' = Follows(TRUE, addr)
        /\ IF Faults(level, addr)
           THEN Abort
           ELSE /\ r_data' = search_cache(caches, level, addr).data
                /\ ready' = Completion("read_hit").ready
                /\ pc' = Completion("read_hit").pc
                /\ wait_left' = latencies[level]
                /\ ev' = "read_hit"
                /\ installed' = installed
        /\ caches' = after_hit(caches, level, addr)
        /\ UNCHANGED <<last_write, mem_vars>>

(* wait(latencies[level], SC_NS) returns; ready.write(true): lines 202, 216 *)
CacheLatencyElapsed ==
    /\ pc = "wait_lat"
    /\ now + wait_left < ClockPeriod
    /\ now' = now + wait_left
    /\ wait_left' = 0
    /\ ready' = TRUE
    /\ pc' = "wait_clk"
    /\ ev' = "latency_elapsed"
    /\ UNCHANGED <<caches, r_data, read, write, address, w_data, build,
                   follows, last_write, driven, installed, mem_vars>>

(* if (read.read()) ... no level hits: lines 193-198, 207-216 *)
CacheReadMiss ==
    \E wr \in BOOLEAN, addr \in driven : \E wdata \in WData(wr) :
        /\ HitLevels(caches, addr) = {}
        /\ Sample(TRUE, wr, addr, wdata)
        /\ follows' = Follows(TRUE, addr)
        /\ caches' = update_all(caches, addr, MissData)
        /\ IF \E l \in Levels : Faults(l, addr)
           THEN Abort
           ELSE /\ r_data' = MissData
                /\ ready' = Completion("read_miss").ready
                /\ pc' = Completion("read_miss").pc
                /\ wait_left' = 0
                /\ ev' = "read_miss"
                /\ installed' = Installed(installed, addr, MissData)
        /\ UNCHANGED <<last_write, mem_vars>>

(* else if (write.read()): lines 217-228 *)
CacheWrite ==
    \E addr \in driven, wdata \in Values :
        /\ Sample(FALSE, TRUE, addr, wdata)
        /\ follows' = "other"
        /\ last_write' = [addr |-> addr, data |-> wdata]
        /\ caches' = update_all(caches, addr, wdata)
        /\ IF \E l \in Levels : Faults(l, addr)
           THEN Abort
           ELSE /\ ready' = Completion("write").ready
                /\ pc' = Completion("write").pc
                /\ wait_left' = 0
                /\ ev' = "write"
                /\ r_data' = r_data
                /\ installed' = Installed(installed, addr, wdata)
        /\ UNCHANGED mem_vars

(* neither read nor write: only ready.write(false), line 188 *)
CacheIdle ==
    /\ Sample(FALSE, FALSE, address, Zero32)
    /\ follows' = "other"
    /\ ready' = Completion("idle").ready
    /\ pc' = Completion("idle").pc
    /\ wait_left' = 0
    /\ ev' = "idle"
    /\ UNCHANGED <<caches, r_data, last_write, installed, mem_vars>>

CacheNext ==
    \/ CacheReadHit
    \/ CacheLatencyElapsed
    \/ CacheReadMiss
    \/ CacheWrite
    \/ CacheIdle

(***************************************************************************)
(* Memory.                                                                 *)
(***************************************************************************)
page_size == 4096

(* The part of each page the model keeps: positions 0..MemWindow-1. *)
MemWindow == 8

MemPages == { a \div page_size : a \in MemAddrs }

(* for (i = 3; i >= 0; i--) data = (data << 8) | memory[page][position + i] *)
RECURSIVE MemReadBytes(_, _, _, _, _)
MemReadBytes(m, page, position, data, i) ==
    IF i < 0 THEN data
    ELSE MemReadBytes(m, page, position, ShlOr(data, m[page][position + i]), i - 1)

mem_read_word(m, addr) ==
    MemReadBytes(m, addr \div page_size, addr % page_size, Zero32, 3)

(* for (i = 0; i < 4; i++) { memory[page][position + i] = data & 0xFF; data >>= 8; } *)
RECURSIVE MemStoreBytes(_, _, _, _, _)
MemStoreBytes(m, page, position, data, i) ==
    IF i >= 4 THEN m
    ELSE MemStoreBytes([m EXCEPT ![page][position + i] = LowByte(data)],
                       page, position, Shr8(data), i + 1)

(* Faulty variant: the most significant byte is stored at position + 0,     *)
(* while the read loop still assembles position + 3 as the high byte.       *)
mem_write_word_high_byte_first(m, addr, data) ==
    LET page == addr \div page_size
        position == addr % page_size
    IN  [m EXCEPT ![page] = [b \in DOMAIN m[page] |->
            IF b \in position..(position + 3)
            THEN data[b - position + 1]
            ELSE m[page][b]]]

mem_write_word(m, addr, data) ==
    MemStoreBytes(m, addr \div page_size, addr % page_size, data, 0)

MemSample(rd, wr, addr, wdata) ==
    /\ mem_read' = rd /\ mem_write' = wr
    /\ mem_address' = addr /\ mem_w_data' = wdata

(* if (read.read() && write.read()): lines 49-50, 68 *)
MemorySimultaneous ==
    \E addr \in MemAddrs, wdata \in Values :
        /\ MemSample(TRUE, TRUE, addr, wdata)
        /\ mem_ready' = TRUE
        /\ mem_ev' = "simultaneous"
        /\ UNCHANGED <<memory, mem_r_data, cache_vars>>

(* else if (read.read()): lines 51-57, 68 *)
MemoryRead ==
    \E addr \in MemAddrs :
        /\ MemSample(TRUE, FALSE, addr, Zero32)
        /\ mem_r_data' = mem_read_word(memory, addr)
        /\ mem_ready' = TRUE
        /\ mem_ev' = "read"
        /\ UNCHANGED <<memory, cache_vars>>

(* else if (write.read()): lines 58-66, 68 *)
MemoryWrite ==
    \E addr \in MemAddrs, wdata \in Values :
        /\ MemSample(FALSE, TRUE, addr, wdata)
        /\ memory' = mem_write_word(memory, addr, wdata)
        /\ mem_ready' = TRUE
        /\ mem_ev' = "write"
        /\ UNCHANGED <<mem_r_data, cache_vars>>

(* neither: lines 41-47, 68 *)
MemoryIdle ==
    /\ MemSample(FALSE, FALSE, mem_address, Zero32)
    /\ mem_ready' = TRUE
    /\ mem_ev' = "idle"
    /\ UNCHANGED <<memory, mem_r_data, cache_vars>>

MemoryNext ==
    \/ MemorySimultaneous
    \/ MemoryRead
    \/ MemoryWrite
    \/ MemoryIdle

(***************************************************************************)
(* Initial state: after the constructors and the initialization phase,     *)
(* both threads suspended in their first wait().                           *)
(***************************************************************************)
NoWrite == [addr |-> -1, data |-> Zero32]

InitState ==
    /\ caches = [l \in Levels |-> [i \in KeptLines(l) |->
                   [valid |-> FALSE, tag |-> 0,
                    data |-> [b \in KeptBytes(l) |-> 0]]]]
    /\ r_data = Zero32
    /\ ready = FALSE
    /\ read = FALSE /\ write = FALSE /\ address = 0 /\ w_data = Zero32
    /\ pc = "wait_clk"
    /\ now = 0
    /\ wait_left = 0
    /\ ev = "init"
    /\ build \in Builds
    /\ follows = "other"
    /\ last_write = NoWrite
    /\ memory = [p \in MemPages |-> [b \in 0..(MemWindow - 1) |-> 0]]
    /\ mem_r_data = Zero32
    /\ mem_ready = FALSE
    /\ mem_read = FALSE /\ mem_write = FALSE /\ mem_address = 0
    /\ mem_w_data = Zero32
    /\ mem_ev = "init"

(* The test bench drives the addresses of Addrs and tracks no installs. *)
Init ==
    /\ InitState
    /\ driven = Addrs
    /\ installed = [a \in {} |-> NoWord]

(* The test bench drives the addresses of WordAddrs and tracks, for each,  *)
(* the word installed for it.                                              *)
InitWords ==
    /\ InitState
    /\ driven = WordAddrs
    /\ installed = [a \in WordAddrs |-> NoWord]

Next == CacheNext \/ MemoryNext

(* The cache program (second sc_main). *)
Spec == Init /\ [][CacheNext]_vars

(* The memory program (first sc_main). *)
SpecMemory == Init /\ [][MemoryNext]_vars

(* Both programs side by side. *)
SpecAll == Init /\ [][Next]_vars

(* The cache program with the test bench of InitWords. *)
SpecWords == InitWords /\ [][CacheNext]_vars

(***************************************************************************)
(* Properties.                                                             *)
(***************************************************************************)

(* The step samples the inputs at a rising edge and serves a read request  *)
(* for addr (read asserted, write not).                                    *)
ServesRead(addr) ==
    /\ ev' \in {"read_hit", "read_miss", "abort"}
    /\ read' /\ ~write' /\ address' = addr

(* C1: a write request (a, v) followed at the next edge by a read request  *)
(* for a: the read hits at level 0, returns v, and ready follows after     *)
(* latencies[0] ns.                                                        *)
C1_RoundTrip ==
    /\ [][(ev = "write" /\ ServesRead(address))
            => (/\ ev' = "read_hit"
                /\ r_data' = w_data
                /\ wait_left' = latencies[0])]_vars
    /\ [][(follows = "write" /\ ev' = "latency_elapsed" /\ ev = "read_hit")
            => (/\ ready'
                /\ now' = latencies[0]
                /\ r_data' = last_write.data
                /\ address' = last_write.addr)]_vars

C1_Witness ==
    /\ ev = "latency_elapsed" /\ follows = "write"
    /\ ready /\ now = 1
    /\ address = last_write.addr /\ r_data = last_write.data
    /\ r_data = ValueTable[1]

(* The step samples the inputs at a rising edge. *)
Samples == ev' \in {"read_hit", "read_miss", "write", "idle", "abort"}

(* A read request has been served to completion: r_data is its result. *)
ReadCompleted ==
    /\ read /\ ~write
    /\ ev \in {"read_miss", "latency_elapsed"}

(* C2: after a write request (a, v), whatever read requests follow (no     *)
(* write request comes between, so none that overlaps a), a read of a      *)
(* returns v.                                                              *)
C2_NoWriteLost ==
    (ReadCompleted /\ address = last_write.addr) => r_data = last_write.data

(* The word the backing store holds at addr; the bytes outside the part of *)
(* the store the model keeps are as the constructor left them, zero.       *)
StoreWord(m, addr) ==
    IF /\ addr \div page_size \in DOMAIN m
       /\ \A i \in 0..3 : (addr % page_size) + i \in DOMAIN m[addr \div page_size]
    THEN mem_read_word(m, addr)
    ELSE Zero32

(* C3: a read that misses at every level returns on r_data, and installs   *)
(* into every level, the word the backing store holds at the address.      *)
C3_MissFetchesFromStore ==
    ev = "read_miss" =>
        /\ r_data = StoreWord(memory, address)
        /\ \A l \in Levels :
             search_cache(caches, l, address) =
                 [hit |-> TRUE, data |-> StoreWord(memory, address)]

(* C4: a rising edge with read and write both asserted changes no cache    *)
(* line and no store byte and does not drive r_data.                       *)
C4_SimultaneousMutatesNothing ==
    [][(Samples /\ read' /\ write')
         => (caches' = caches /\ memory' = memory /\ r_data' = r_data)]_vars

(* C5: a read or write request whose word runs past the end of the line    *)
(* (offset + 4 > line_size) leaves every line of every level unchanged.    *)
C5_AlignmentGuard ==
    [][(Samples /\ (read' \/ write') /\ ~Aligned(address'))
         => caches' = caches]_vars

(* No line of any level is valid: the hierarchy as constructed. *)
Cold == \A l \in Levels : \A i \in DOMAIN caches[l] : ~caches[l][i].valid

(* C6: on the hierarchy as constructed a read hits at no level; a read     *)
(* miss leaves the fetched word in every level, and a read of the same     *)
(* address at the next edge hits at level 0 and returns the same word.     *)
C6_ColdMissFill ==
    /\ [][(Cold /\ Samples /\ read') => ev' \in {"read_miss", "abort"}]_vars
    /\ [](ev = "read_miss" =>
            \A l \in Levels :
                search_cache(caches, l, address) = [hit |-> TRUE, data |-> r_data])
    /\ [][(ev = "read_miss" /\ ServesRead(address))
            => (/\ ev' = "read_hit"
                /\ wait_left' = latencies[0]
                /\ r_data' = r_data)]_vars

(* A first read of an address on the constructed hierarchy, then a second  *)
(* read of it, completed: nothing else has been installed.                 *)
C6_Witness ==
    /\ ev = "latency_elapsed" /\ follows = "read_miss"
    /\ now = latencies[0] /\ ready
    /\ r_data = MissData
    /\ last_write = NoWrite
    /\ \A l \in Levels :
         \A i \in DOMAIN caches[l] : caches[l][i].valid <=> i = Index(l, address)

(* a1 and a2 select the same line of the level and differ in tag. *)
Conflict(level, a1, a2) ==
    /\ Index(level, a1) = Index(level, a2)
    /\ Tag(level, a1) # Tag(level, a2)

(* C7: right after a2 is installed (by a write or a miss fill), at every   *)
(* level a lookup of a2 hits and a lookup of any a1 that conflicts with a2 *)
(* at that level misses.                                                   *)
C7_ConflictOverwrite ==
    ev \in {"write", "read_miss"} =>
        \A l \in Levels :
            /\ search_cache(caches, l, address).hit
            /\ \A a1 \in Addrs :
                 Conflict(l, a1, address) => ~search_cache(caches, l, a1).hit

(* Block 0 was installed (it is still resident at level 1), then 1024,     *)
(* which took its line at level 0.                                         *)
C7_Witness ==
    /\ ev \in {"write", "read_miss"}
    /\ address = 1024
    /\ search_cache(caches, 1, 0).hit
    /\ ~search_cache(caches, 0, 0).hit
    /\ search_cache(caches, 0, 1024).hit

(* C8: right after a write request (a, v) completes, at every level the    *)
(* line at a's index is valid, carries a's tag, and a lookup of a returns  *)
(* v.                                                                      *)
C8_WriteThrough ==
    ev = "write" =>
        \A l \in Levels :
            /\ caches[l][Index(l, address)].valid
            /\ caches[l][Index(l, address)].tag = Tag(l, address)
            /\ search_cache(caches, l, address) = [hit |-> TRUE, data |-> w_data]

(* A write to 4096 completed while block 16 (address 1024) is resident at  *)
(* level 1: the line 4096 now holds at level 0 held another block before.  *)
C8_Witness ==
    /\ ev = "write"
    /\ address = 4096
    /\ search_cache(caches, 1, 1024).hit

(* C9: ready is not asserted on a tick where no request was sampled, in    *)
(* the cache and in the memory module.                                     *)
C9_ReadyPulse ==
    /\ ev = "idle" => ~ready
    /\ mem_ev = "idle" => ~mem_ready

(* C10: a request is sampled only while the thread is idle in wait(), and  *)
(* the request sampled before it has reached ready by then; during a       *)
(* latency wait the only step is its completion, which changes no line     *)
(* and no latched input.                                                   *)
C10_BackPressure ==
    /\ [][Samples =>
            (/\ pc = "wait_clk"
             /\ ev # "read_hit"
             /\ ev \in {"write", "read_miss", "latency_elapsed"} => ready)]_vars
    /\ [][pc = "wait_lat" =>
            (/\ ev' = "latency_elapsed"
             /\ ready'
             /\ UNCHANGED <<caches, r_data, read, write, address, w_data>>)]_vars

(* A read that hit at level 1 is in its latency wait. *)
C10_Witness ==
    /\ pc = "wait_lat"
    /\ ev = "read_hit"
    /\ wait_left = latencies[1]
    /\ ~ready

(***************************************************************************)
(* C11: every request sampled with exactly one of read and write asserted  *)
(* runs to completion: a read miss and a write assert ready in the same    *)
(* evaluation, a read hit is left in a timed wait that ends before the     *)
(* next rising edge, and the step out of that wait asserts ready and       *)
(* returns the process to the wait for the clock.  The process is never    *)
(* left with a sampled request and no way to reach ready.                  *)
(***************************************************************************)
C11_RunToCompletion ==
    [][ /\ (Samples /\ read' # write')
            => \/ ev' \in {"read_miss", "write"} /\ ready' /\ pc' = "wait_clk"
               \/ /\ ev' = "read_hit"
                  /\ pc' = "wait_lat"
                  /\ now' + wait_left' < ClockPeriod
        /\ pc = "wait_lat" => ready' /\ pc' = "wait_clk" ]_vars

(***************************************************************************)
(* C12: a read that misses in every level is reported ready no sooner      *)
(* after its sampling edge than the latencies of all levels added up (the  *)
(* cost of the backing store comes on top), hence never sooner than a hit  *)
(* at the slowest level.                                                   *)
(***************************************************************************)
RECURSIVE SumLatencies(_)
SumLatencies(n) == IF n = 0 THEN 0 ELSE latencies[n - 1] + SumLatencies(n - 1)

C12_MissLatency ==
    (ev = "read_miss" /\ ready)
        => /\ now >= SumLatencies(levels)
           /\ \A l \in Levels : now >= latencies[l]

(***************************************************************************)
(* C13: a read that hits is served by the lowest-numbered level holding    *)
(* the address: r_data carries that level's word, and ready is asserted    *)
(* exactly that level's latency after the sampling edge, 1 ns for level 0  *)
(* and 3 ns for level 1, and not before.                                   *)
(***************************************************************************)
HoldingIn(c, addr) == { l \in Levels : LineHit(c, l, addr) }

Holding(addr) == HoldingIn(caches, addr)

Lowest(S) == CHOOSE l \in S : \A k \in S : l <= k

C13_HitLatency ==
    (read /\ ev \in {"read_hit", "latency_elapsed"})
        => /\ Holding(address) # {}
           /\ LET l == Lowest(Holding(address))
                  d == IF l = 0 THEN 1 ELSE 3
              IN  /\ latencies[l] = d
                  /\ r_data = search_cache(caches, l, address).data
                  /\ ev = "read_hit"
                        => ~ready /\ now = 0 /\ wait_left = d
                  /\ ev = "latency_elapsed"
                        => ready /\ now = d /\ wait_left = 0

(* A read served by level 1 while level 0 does not hold the address. *)
C13_Witness ==
    /\ read /\ ~write
    /\ ev = "latency_elapsed"
    /\ Holding(address) = {1}
    /\ ready
    /\ now = 3

(***************************************************************************)
(* C14: a request sampled with read and write asserted together is an      *)
(* error and completes without ready: Memory, having reported it, leaves   *)
(* its ready deasserted, and so does the cache once it has dealt with the  *)
(* request.                                                                *)
(***************************************************************************)
C14_ErrorWithoutReady ==
    /\ mem_ev = "simultaneous" => ~mem_ready
    /\ (read /\ write /\ ev \in {"read_miss", "latency_elapsed", "write"})
           => ~ready

(***************************************************************************)
(* C15: a read hit is read-only.  The step that serves a hit and the step  *)
(* that ends its latency wait leave every line of every level as it was;   *)
(* a block held by level 1 only is not copied into level 0, and a read of  *)
(* the same address that comes next hits at level 1 again.                 *)
(***************************************************************************)
C15_HitReadOnly ==
    /\ [][(ev' \in {"read_hit", "latency_elapsed"}) => caches' = caches]_vars
    /\ [][(ev' = "read_hit" /\ HoldingIn(caches, address') = {1})
             => /\ HoldingIn(caches', address') = {1}
                /\ wait_left' = latencies[1]]_vars
    /\ [][(/\ ev = "latency_elapsed"
           /\ Holding(address) = {1}
           /\ ServesRead(address))
             => /\ ev' = "read_hit"
                /\ wait_left' = latencies[1]
                /\ r_data' = r_data]_vars

(* A hit being served by level 1 for a block level 0 does not hold, with   *)
(* the conflicting block still resident at level 0.                        *)
C15_Witness ==
    /\ ev = "read_hit"
    /\ pc = "wait_lat"
    /\ wait_left = latencies[1]
    /\ Holding(address) = {1}
    /\ \E a \in Addrs : a # address /\ Holding(a) = {0, 1}
                        /\ Conflict(0, a, address)

(***************************************************************************)
(* C16: Memory round trip.  For addresses whose four bytes lie within one  *)
(* page: a write of v to a leaves v as the word read at a; it leaves the   *)
(* word at every a2 with |a - a2| >= 4 as it was; no other step changes a  *)
(* stored word; and a read of a returns the word stored at a.  Hence a     *)
(* read of a returns the v last written to a, whatever was written since   *)
(* to addresses at distance 4 or more, and at once when the read comes     *)
(* directly after the write.                                               *)
(***************************************************************************)
WithinPage(a) == (a % page_size) + 4 <= page_size

Distance(a1, a2) == IF a1 >= a2 THEN a1 - a2 ELSE a2 - a1

C16_MemoryRoundTrip ==
    /\ [][(mem_ev' = "write" /\ WithinPage(mem_address'))
             => /\ mem_read_word(memory', mem_address') = mem_w_data'
                /\ \A a \in MemAddrs :
                     (WithinPage(a) /\ Distance(a, mem_address') >= 4)
                       => mem_read_word(memory', a) = mem_read_word(memory, a)]_vars
    /\ [][(mem_ev' # "write") => memory' = memory]_vars
    /\ [][(mem_ev' = "read" /\ WithinPage(mem_address'))
             => /\ mem_r_data' = mem_read_word(memory, mem_address')
                /\ mem_ready']_vars
    /\ [][(/\ mem_ev = "write"
           /\ mem_ev' = "read"
           /\ mem_address' = mem_address
           /\ WithinPage(mem_address))
             => mem_r_data' = mem_w_data]_vars

(* A read of page 0 returns the word written there while the same word has *)
(* also been written to another page and read back before.                 *)
C16_Witness ==
    /\ mem_ev = "read"
    /\ mem_read /\ ~mem_write
    /\ mem_address = 0
    /\ mem_r_data = ValueTable[1]
    /\ mem_read_word(memory, 4096) = ValueTable[1]
    /\ mem_ready

(***************************************************************************)
(* C17: a read that hits returns the word most recently installed, by a    *)
(* write or a miss fill, for exactly the address read: a word has been     *)
(* installed for that address, and r_data carries it, not bytes the line   *)
(* got for another block or bytes of the block that were never installed.  *)
(***************************************************************************)
C17_NoStaleHit ==
    (read /\ ev \in {"read_hit", "latency_elapsed"} /\ address \in DOMAIN installed)
        => /\ installed[address] # NoWord
           /\ r_data = installed[address]

(***************************************************************************)
(* C18: tag inclusion.  While process_cache runs, every block resident at  *)
(* level 0 is resident at level 1: the level-1 line the tag of a valid     *)
(* level-0 line selects is valid and carries that tag.  Hence no address   *)
(* hits at level 0 and misses at level 1.                                  *)
(***************************************************************************)
C18_TagInclusion ==
    pc # "aborted"
        => /\ \A i \in KeptLines(0) :
                caches[0][i].valid
                  => LET t == caches[0][i].tag
                         j == t % num_lines(1)
                     IN  /\ j \in KeptLines(1)
                         /\ caches[1][j].valid
                         /\ caches[1][j].tag = t
           /\ \A a \in Addrs : LineHit(caches, 0, a) => LineHit(caches, 1, a)

(* Right after an install: level 1 holds two blocks that share a level-0   *)
(* line, level 0 holds the later one of them.                              *)
C18_Witness ==
    /\ pc = "wait_clk"
    /\ ev \in {"write", "read_miss"}
    /\ \E a, b \in Addrs :
          /\ Conflict(0, a, b)
          /\ Holding(a) = {0, 1}
          /\ Holding(b) = {1}

(***************************************************************************)
(* C19: idle tick.  At a rising edge sampled with neither read nor write   *)
(* asserted the cache changes no line of any level, leaves r_data as it    *)
(* was, and has ready deasserted; the process is back in its wait for the  *)
(* next edge.                                                              *)
(***************************************************************************)
C19_IdleTick ==
    [][(Samples /\ ~read' /\ ~write')
          => /\ ev' = "idle"
             /\ caches' = caches
             /\ r_data' = r_data
             /\ ~ready'
             /\ pc' = "wait_clk"]_vars

(* An idle tick after a miss: the filled lines and the word on r_data are  *)
(* still there, ready has fallen.                                          *)
C19_Witness ==
    /\ ev = "idle"
    /\ ~read /\ ~write
    /\ ~ready
    /\ r_data = MissData
    /\ \E a \in Addrs : Holding(a) = {0, 1}

====
